---- MODULE Spec2Model ----
(***************************************************************************)
(* Model of src/index.js: a Discord bot that stores every inbound message  *)
(* in a Postgres table, answers addressed messages with a language model   *)
(* (short-term channel history + per-user long-term summary in the         *)
(* prompt) and rewrites the user's summary after each exchange.            *)
(*                                                                         *)
(* Text is a sequence of one-character strings.  The mention token         *)
(* `<@BOTID>` is the single symbol "@"; fixed strings of the program       *)
(* (persona, memory-line prefix, "(none)", apology) are single symbols.    *)
(* Every `await` of the source is one step of the model: the store or the  *)
(* capability acts at that step and may fail there.                        *)
(***************************************************************************)
EXTENDS Integers, Sequences, FiniteSets, TLC

VARIABLES
    messages,     \* table messages: set of rows (id is the primary key)
    nextId,       \* the bigserial sequence behind messages.id
    user_memory,  \* table user_memory: set of rows [user_id, summary]
    pc,           \* per messageCreate invocation: the await it is suspended at
    msg,          \* per invocation: the inbound message
    local,        \* per invocation: the JS locals of the handler and its callees
    sent,         \* per invocation: the msg.channel.send calls, with their result
    trace,        \* per invocation: the awaited steps that completed, in order
    failedAt,     \* per invocation: the step whose await threw ("none" if none)
    turnId,       \* per invocation: ids of the rows it inserted (0 = none)
    wiped,        \* ids deleted by /reset
    cmds,         \* number of slash commands handled so far
    faults,       \* number of failed store / capability / send calls so far
    shown,        \* last text /memory replied with
    lastFetch     \* last fetchShortHistory call made on its own (SpecHistory)

vars == <<messages, nextId, user_memory, pc, msg, local, sent, trace, failedAt,
          turnId, wiped, cmds, faults, shown, lastFetch>>

---------------------------------------------------------------------------
(* Bounds and alphabets *)

Users == {"u1", "u2"}
BotUser == "bot"
Authors == Users \cup {BotUser}
Channels == {"c1", "c2"}
Guild == "g1"

MaxCmds == 1
MaxFaults == 1
MaxRows == 4
MaxLimit == 3

HistoryLimit == 10

Persona == "PERSONA"
MemPrefix == "MEM:"
NoneMarker == "(none)"
Apology == <<"OOPS">>
NoMemoryText == <<"NOMEM">>

---------------------------------------------------------------------------
(* String functions of JavaScript used by the source *)

RECURSIVE TrimStart(_)
TrimStart(s) ==
    IF s = <<>> THEN s
    ELSE IF Head(s) = " " THEN TrimStart(Tail(s)) ELSE s

RECURSIVE TrimEnd(_)
TrimEnd(s) ==
    IF s = <<>> THEN s
    ELSE IF s[Len(s)] = " " THEN TrimEnd(SubSeq(s, 1, Len(s) - 1)) ELSE s

Trim(s) == TrimEnd(TrimStart(s))

StartsWithBang(s) == s # <<>> /\ Head(s) = "!"

\* content.replace(/^!\s*/, '')
StripPrefix(s) == IF StartsWithBang(s) THEN TrimStart(Tail(s)) ELSE s

\* content.replace(`<@${client.user.id}>`, ""): a string pattern replaces the
\* first occurrence only
RECURSIVE RemoveMention(_)
RemoveMention(s) ==
    IF s = <<>> THEN s
    ELSE IF Head(s) = "@" THEN Tail(s)
    ELSE <<Head(s)>> \o RemoveMention(Tail(s))

userTextOf(content) == Trim(RemoveMention(StripPrefix(content)))

HasMentionToken(s) == \E i \in 1..Len(s) : s[i] = "@"

Reverse(s) == [i \in 1..Len(s) |-> s[Len(s) + 1 - i]]

---------------------------------------------------------------------------
(* The store: tables messages and user_memory *)

Roles == {"user", "assistant"}

\* one row of messages as the two inserts of the handler build it
\* (created_at defaults to now() and is never read)
NewRow(id, guild_id, channel_id, user_id, role, content) ==
    [id |-> id, guild_id |-> guild_id, channel_id |-> channel_id,
     user_id |-> user_id, role |-> role, content |-> content]

\* select role, content ... : the projection of a row
RoleContent(r) == [role |-> r.role, content |-> r.content]

\* where channel_id = $1 order by id desc limit $2
RECURSIVE OrderByIdDescLimit(_, _)
OrderByIdDescLimit(rows, limit) ==
    IF limit <= 0 \/ rows = {} THEN <<>>
    ELSE LET top == CHOOSE r \in rows : \A q \in rows : q.id <= r.id
         IN <<RoleContent(top)>> \o OrderByIdDescLimit(rows \ {top}, limit - 1)

selectRecent(table, channel_id, limit) ==
    OrderByIdDescLimit({r \in table : r.channel_id = channel_id}, limit)

\* fetchShortHistory without rows.reverse(): newest first
fetchShortHistory_Unreversed(table, channel_id, limit) ==
    selectRecent(table, channel_id, limit)

fetchShortHistory(table, channel_id, limit) ==
    Reverse(selectRecent(table, channel_id, limit))

\* rows[0]?.summary || ""
fetchUserSummary(table, user_id) ==
    LET rows == {r \in table : r.user_id = user_id}
    IN IF rows = {} THEN <<>> ELSE (CHOOSE r \in rows : TRUE).summary

\* upsertRow appending the new summary to the stored one
upsertRow_Concat(table, user_id, summary) ==
    LET old == {r \in table : r.user_id = user_id}
    IN {r \in table : r.user_id # user_id}
          \cup {[user_id |-> user_id,
                 summary |-> (IF old = {} THEN <<>> ELSE (CHOOSE r \in old : TRUE).summary)
                                \o summary]}

\* insert ... on conflict (user_id) do update set summary = $2
upsertRow(table, user_id, summary) ==
    {r \in table : r.user_id # user_id}
        \cup {[user_id |-> user_id, summary |-> summary]}

\* delete from user_memory without the where clause
deleteUserMemory_All(table, user_id) == {}

deleteUserMemory(table, user_id) == {r \in table : r.user_id # user_id}

\* delete from messages without the where clause
deleteMessages_All(table, channel_id) == {}

deleteMessages(table, channel_id) == {r \in table : r.channel_id # channel_id}

---------------------------------------------------------------------------
(* Prompt assembly *)

\* MemoryLine without the `|| "(none)"` fallback
MemoryLine_NoFallback(summary) ==
    [role |-> "system", content |-> <<MemPrefix>> \o summary]

\* `User long-term memory: ${summary || "(none)"}`
MemoryLine(summary) ==
    [role |-> "system",
     content |-> <<MemPrefix>> \o (IF summary = <<>> THEN <<NoneMarker>> ELSE summary)]

\* replyMessages with the new user message put before the history
replyMessages_NewFirst(summary, short, userText) ==
    <<[role |-> "system", content |-> <<Persona>>], MemoryLine(summary),
      [role |-> "user", content |-> userText]>>
        \o [i \in 1..Len(short) |-> [role |-> short[i].role, content |-> short[i].content]]

\* the messages array of generateReply
replyMessages(summary, short, userText) ==
    <<[role |-> "system", content |-> <<Persona>>], MemoryLine(summary)>>
        \o [i \in 1..Len(short) |-> [role |-> short[i].role, content |-> short[i].content]]
        \o <<[role |-> "user", content |-> userText]>>

\* the user prompt of upsertUserSummary: current summary (or "(none)") and
\* the new message
summaryPrompt(current, interactionText) ==
    [current |-> IF current = <<>> THEN <<NoneMarker>> ELSE current,
     newMessage |-> interactionText]

---------------------------------------------------------------------------
(* Inputs: inbound messages and capability outcomes *)

MsgTexts ==
    { <<"!", " ", "a">>,     \* prefix, blank, text
      <<"a">>,               \* plain text
      <<"!", "@", " ">>,     \* prefix, mention token, blank
      <<>> }                 \* no text (attachment only)

\* msg.mentions.has(client.user) holds when the text carries the token, and
\* also without it (reply ping, @everyone): here for a message with no text.
\* The handler reads nothing of a bot's message, so one such message is enough.
Inbound ==
    {m \in [guildId : {Guild}, channelId : Channels, author : Authors,
            content : MsgTexts, mentionsBot : BOOLEAN] :
        /\ HasMentionToken(m.content) => m.mentionsBot
        /\ (m.mentionsBot /\ ~HasMentionToken(m.content)) => m.content = <<>>
        /\ m.author = BotUser => (m.content = <<"a">> /\ ~m.mentionsBot)}

\* Invocations are named in arrival order, and users and channels are
\* interchangeable: the first message is u1's or the bot's, in c1.
Order == <<"t1", "t2">>
Arrivals(t) ==
    LET i == CHOOSE k \in 1..Len(Order) : Order[k] = t
    IN IF i = 1 THEN {m \in Inbound : m.channelId = "c1" /\ m.author # "u2"}
       ELSE Inbound

Arrived(t) ==
    LET i == CHOOSE k \in 1..Len(Order) : Order[k] = t
    IN \A k \in 1..(i - 1) : pc[Order[k]] # "start"

Tasks == {Order[k] : k \in 1..Len(Order)}

isBot(m) == m.author = BotUser

\* addressed without the check: every message counts as addressed
addressed_Always(m) == TRUE

\* msg.mentions.has(client.user) || msg.content.startsWith("!")
addressed(m) == m.mentionsBot \/ StartsWithBang(m.content)

ReplyTexts == { <<" ", "r", " ">>, <<" ">> }
SummaryTexts == { <<" ", "s", " ">>, <<" ">> }

\* what openai.chat.completions.create(...) followed by
\* resp.choices[0].message.content.trim() can do: the call rejects, there is
\* no choices[0], content is null, or content is a string
Completion(texts) ==
    {[kind |-> "throw", content |-> <<>>],
     [kind |-> "nochoice", content |-> <<>>],
     [kind |-> "null", content |-> <<>>]}
        \cup {[kind |-> "text", content |-> c] : c \in texts}

\* Discord rejects a message with no content ("Cannot send an empty message")
sendRejects(content) == content = <<>>

---------------------------------------------------------------------------
(* State after construction *)

NoLocal ==
    [userText |-> <<>>, short |-> <<>>, summary |-> <<>>, messages |-> <<>>,
     reply |-> <<>>, interactionText |-> <<>>, current |-> <<>>,
     prompt |-> summaryPrompt(<<>>, <<>>), output |-> <<>>, updated |-> <<>>]

NoMsg ==
    [guildId |-> Guild, channelId |-> "none", author |-> "none",
     content |-> <<>>, mentionsBot |-> FALSE]

NoFetch == [channel_id |-> "none", limit |-> 0, rows |-> <<>>]

Init ==
    /\ messages = {}
    /\ nextId = 1
    /\ user_memory = {}
    /\ pc = [t \in Tasks |-> "start"]
    /\ msg = [t \in Tasks |-> NoMsg]
    /\ local = [t \in Tasks |-> NoLocal]
    /\ sent = [t \in Tasks |-> <<>>]
    /\ trace = [t \in Tasks |-> <<>>]
    /\ failedAt = [t \in Tasks |-> "none"]
    /\ turnId = [t \in Tasks |-> [user |-> 0, assistant |-> 0]]
    /\ wiped = {}
    /\ cmds = 0
    /\ faults = 0
    /\ shown = <<>>
    /\ lastFetch = NoFetch

---------------------------------------------------------------------------
(* The messageCreate handler, one action per await *)

\* TrySteps with the assistant Turn stored before the reply is sent
TrySteps_StoreBeforeSend ==
    <<"fetchShort", "fetchSummary", "modelCall", "insertAssistant",
      "send", "memRead", "memCall", "memWrite">>

\* the awaits inside try { ... } in the order the handler reaches them
TrySteps ==
    <<"fetchShort", "fetchSummary", "modelCall", "send",
      "insertAssistant", "memRead", "memCall", "memWrite">>

\* where the handler is suspended next once `step` of the try block completed
After(step) ==
    LET i == CHOOSE k \in 1..Len(TrySteps) : TrySteps[k] = step
    IN IF i = Len(TrySteps) THEN "done" ELSE TrySteps[i + 1]

\* Handler without the try/catch: every rejection leaves the handler
Handler_NoCatch(step) == "uncaught"

\* Handler with the summarizer's rejection swallowed: the update goes on
\* to its write
Handler_SwallowSummarizer(step) ==
    IF step = "memCall" THEN "memWrite"
    ELSE IF step \in {"insertUser", "apology"} THEN "uncaught" ELSE "catch"

\* a rejection inside try { } reaches the catch clause; one outside it
\* (the first insert, the apology itself) leaves the handler unhandled
Handler(step) ==
    IF \E k \in 1..Len(TrySteps) : TrySteps[k] = step THEN "catch" ELSE "uncaught"

\* the await at `step` rejects
Throws(t, step, counted) ==
    /\ counted => faults < MaxFaults
    /\ faults' = IF counted THEN faults + 1 ELSE faults
    /\ failedAt' = [failedAt EXCEPT ![t] = IF @ = "none" THEN step ELSE @]
    /\ pc' = [pc EXCEPT ![t] = Handler(step)]
    /\ UNCHANGED trace

\* the await at `step` resolves and the handler runs on to its next await
Resolves(t, step, next) ==
    /\ pc' = [pc EXCEPT ![t] = next]
    /\ trace' = [trace EXCEPT ![t] = Append(@, step)]
    /\ UNCHANGED <<faults, failedAt>>

\* userRow storing the stripped text instead of the raw one
userRow_Stripped(id, m) ==
    NewRow(id, m.guildId, m.channelId, m.author, "user", userTextOf(m.content))

\* the first insert: role 'user', content msg.content
userRow(id, m) == NewRow(id, m.guildId, m.channelId, m.author, "user", m.content)

\* the second insert: role 'assistant', user_id client.user.id, content reply
assistantRow(id, m, reply) ==
    NewRow(id, m.guildId, m.channelId, BotUser, "assistant", reply)

\* upsertUserSummary called with the stripped text
upsertArgument_Stripped(m, reply) == userTextOf(m.content)

\* the text upsertUserSummary is called with
upsertArgument(m, reply) == m.content

\* AfterUserInsert without `if (!userText) return`
AfterUserInsert_NoEmptyCheck(m) ==
    IF ~addressed(m) THEN "unaddressed" ELSE TrySteps[1]

\* after the first insert: addressed check, stripping, empty check
AfterUserInsert(m) ==
    IF ~addressed(m) THEN "unaddressed"
    ELSE IF userTextOf(m.content) = <<>> THEN "aborted"
    ELSE TrySteps[1]

Receive(t) ==
    /\ pc[t] = "start"
    /\ Arrived(t)
    /\ \E m \in Arrivals(t) :
        /\ msg' = [msg EXCEPT ![t] = m]
        /\ pc' = [pc EXCEPT ![t] = IF isBot(m) THEN "ignored" ELSE "insertUser"]
    /\ UNCHANGED <<messages, nextId, user_memory, local, sent, trace, failedAt,
                   turnId, wiped, cmds, faults, shown, lastFetch>>

InsertUserTurn(t) ==
    /\ pc[t] = "insertUser"
    /\ \/ /\ Throws(t, "insertUser", TRUE)
          /\ UNCHANGED <<messages, nextId, local, turnId>>
       \/ /\ messages' = messages \cup {userRow(nextId, msg[t])}
          /\ nextId' = nextId + 1
          /\ turnId' = [turnId EXCEPT ![t].user = nextId]
          /\ local' = [local EXCEPT ![t].userText =
                          IF addressed(msg[t]) THEN userTextOf(msg[t].content) ELSE @]
          /\ Resolves(t, "insertUser", AfterUserInsert(msg[t]))
    /\ UNCHANGED <<user_memory, msg, sent, wiped, cmds, shown, lastFetch>>

FetchShort(t) ==
    /\ pc[t] = "fetchShort"
    /\ \/ /\ Throws(t, "fetchShort", TRUE)
          /\ UNCHANGED local
       \/ /\ local' = [local EXCEPT ![t].short =
                          fetchShortHistory(messages, msg[t].channelId, HistoryLimit)]
          /\ Resolves(t, "fetchShort", After("fetchShort"))
    /\ UNCHANGED <<messages, nextId, user_memory, msg, sent, turnId, wiped, cmds,
                   shown, lastFetch>>

FetchSummary(t) ==
    /\ pc[t] = "fetchSummary"
    /\ \/ /\ Throws(t, "fetchSummary", TRUE)
          /\ UNCHANGED local
       \/ /\ LET summary == fetchUserSummary(user_memory, msg[t].author)
             IN local' = [local EXCEPT
                    ![t].summary = summary,
                    ![t].messages = replyMessages(summary, local[t].short,
                                                  local[t].userText)]
          /\ Resolves(t, "fetchSummary", After("fetchSummary"))
    /\ UNCHANGED <<messages, nextId, user_memory, msg, sent, turnId, wiped, cmds,
                   shown, lastFetch>>

\* generateReply's return value for a completion that carries text
replyOf(content) == Trim(content)

ModelCall(t) ==
    /\ pc[t] = "modelCall"
    /\ \E c \in Completion(ReplyTexts) :
        \/ /\ c.kind # "text"
           /\ Throws(t, "modelCall", TRUE)
           /\ UNCHANGED local
        \/ /\ c.kind = "text"
           /\ local' = [local EXCEPT ![t].reply = replyOf(c.content)]
           /\ Resolves(t, "modelCall", After("modelCall"))
    /\ UNCHANGED <<messages, nextId, user_memory, msg, sent, turnId, wiped, cmds,
                   shown, lastFetch>>

SendReply(t) ==
    /\ pc[t] = "send"
    /\ \/ /\ Throws(t, "send", ~sendRejects(local[t].reply))
          /\ sent' = [sent EXCEPT ![t] =
                         Append(@, [content |-> local[t].reply, delivered |-> FALSE])]
          /\ UNCHANGED local
       \/ /\ ~sendRejects(local[t].reply)
          /\ sent' = [sent EXCEPT ![t] =
                         Append(@, [content |-> local[t].reply, delivered |-> TRUE])]
          /\ UNCHANGED local
          /\ Resolves(t, "send", After("send"))
    /\ UNCHANGED <<messages, nextId, user_memory, msg, turnId, wiped, cmds,
                   shown, lastFetch>>

InsertAssistantTurn(t) ==
    /\ pc[t] = "insertAssistant"
    /\ \/ /\ Throws(t, "insertAssistant", TRUE)
          /\ UNCHANGED <<messages, nextId, local, turnId>>
       \/ /\ messages' = messages \cup {assistantRow(nextId, msg[t], local[t].reply)}
          /\ nextId' = nextId + 1
          /\ turnId' = [turnId EXCEPT ![t].assistant = nextId]
          /\ local' = [local EXCEPT ![t].interactionText =
                          upsertArgument(msg[t], local[t].reply)]
          /\ Resolves(t, "insertAssistant", After("insertAssistant"))
    /\ UNCHANGED <<user_memory, msg, sent, wiped, cmds, shown, lastFetch>>

MemRead(t) ==
    /\ pc[t] = "memRead"
    /\ \/ /\ Throws(t, "memRead", TRUE)
          /\ UNCHANGED local
       \/ /\ LET current == fetchUserSummary(user_memory, msg[t].author)
             IN local' = [local EXCEPT
                    ![t].current = current,
                    ![t].prompt = summaryPrompt(current, local[t].interactionText)]
          /\ Resolves(t, "memRead", After("memRead"))
    /\ UNCHANGED <<messages, nextId, user_memory, msg, sent, turnId, wiped, cmds,
                   shown, lastFetch>>

\* the summarizer may return the current summary verbatim or a new text
MemCall(t) ==
    /\ pc[t] = "memCall"
    /\ \E c \in Completion(SummaryTexts \cup {local[t].current}) :
        \/ /\ c.kind # "text"
           /\ Throws(t, "memCall", TRUE)
           /\ UNCHANGED local
        \/ /\ c.kind = "text"
           /\ local' = [local EXCEPT ![t].output = c.content,
                                     ![t].updated = Trim(c.content)]
           /\ Resolves(t, "memCall", After("memCall"))
    /\ UNCHANGED <<messages, nextId, user_memory, msg, sent, turnId, wiped, cmds,
                   shown, lastFetch>>

MemWrite(t) ==
    /\ pc[t] = "memWrite"
    /\ \/ /\ Throws(t, "memWrite", TRUE)
          /\ UNCHANGED user_memory
       \/ /\ user_memory' = upsertRow(user_memory, msg[t].author, local[t].updated)
          /\ Resolves(t, "memWrite", After("memWrite"))
    /\ UNCHANGED <<messages, nextId, msg, local, sent, turnId, wiped, cmds,
                   shown, lastFetch>>

\* catch (err) { console.error(err); await msg.channel.send(apology) }
SendApology(t) ==
    /\ pc[t] = "catch"
    /\ \/ /\ Throws(t, "apology", TRUE)
          /\ sent' = [sent EXCEPT ![t] =
                         Append(@, [content |-> Apology, delivered |-> FALSE])]
       \/ /\ sent' = [sent EXCEPT ![t] =
                         Append(@, [content |-> Apology, delivered |-> TRUE])]
          /\ pc' = [pc EXCEPT ![t] = "failed"]
          /\ UNCHANGED <<faults, failedAt, trace>>
    /\ UNCHANGED <<messages, nextId, user_memory, msg, local, turnId, wiped, cmds,
                   shown, lastFetch>>

---------------------------------------------------------------------------
(* The interactionCreate handler: /memory, /forget, /reset *)

Memory(u) ==
    /\ cmds < MaxCmds
    /\ cmds' = cmds + 1
    /\ LET summary == fetchUserSummary(user_memory, u)
       IN shown' = IF summary = <<>> THEN NoMemoryText ELSE summary
    /\ UNCHANGED <<messages, nextId, user_memory, pc, msg, local, sent, trace,
                   failedAt, turnId, wiped, faults, lastFetch>>

Forget(u) ==
    /\ cmds < MaxCmds
    /\ cmds' = cmds + 1
    /\ user_memory' = deleteUserMemory(user_memory, u)
    /\ UNCHANGED <<messages, nextId, pc, msg, local, sent, trace, failedAt,
                   turnId, wiped, faults, shown, lastFetch>>

Reset(c) ==
    /\ cmds < MaxCmds
    /\ cmds' = cmds + 1
    /\ messages' = deleteMessages(messages, c)
    /\ wiped' = wiped \cup {r.id : r \in {q \in messages : q.channel_id = c}}
    /\ UNCHANGED <<nextId, user_memory, pc, msg, local, sent, trace, failedAt,
                   turnId, faults, shown, lastFetch>>

---------------------------------------------------------------------------
(* Specification of the bot *)

Next ==
    \/ \E t \in Tasks : Receive(t)
    \/ \E t \in Tasks : InsertUserTurn(t)
    \/ \E t \in Tasks : FetchShort(t)
    \/ \E t \in Tasks : FetchSummary(t)
    \/ \E t \in Tasks : ModelCall(t)
    \/ \E t \in Tasks : SendReply(t)
    \/ \E t \in Tasks : InsertAssistantTurn(t)
    \/ \E t \in Tasks : MemRead(t)
    \/ \E t \in Tasks : MemCall(t)
    \/ \E t \in Tasks : MemWrite(t)
    \/ \E t \in Tasks : SendApology(t)
    \/ \E u \in Users : Memory(u)
    \/ \E u \in Users : Forget(u)
    \/ \E c \in Channels : Reset(c)

Spec == Init /\ [][Next]_vars

---------------------------------------------------------------------------
(* Specification of the short-term history alone: turns are appended and   *)
(* channels reset as the handlers do it, and fetchShortHistory is called   *)
(* with any channel and any limit.                                         *)

HistInsert(c, role) ==
    /\ nextId <= MaxRows
    /\ messages' = messages \cup
          {IF role = "user"
           THEN userRow(nextId, [NoMsg EXCEPT !.channelId = c, !.author = "u1",
                                              !.content = <<"a">>])
           ELSE assistantRow(nextId, [NoMsg EXCEPT !.channelId = c], <<"r">>)}
    /\ nextId' = nextId + 1
    /\ UNCHANGED <<user_memory, pc, msg, local, sent, trace, failedAt, turnId,
                   wiped, cmds, faults, shown, lastFetch>>

HistReset(c) ==
    /\ messages' = deleteMessages(messages, c)
    /\ UNCHANGED <<nextId, user_memory, pc, msg, local, sent, trace, failedAt,
                   turnId, wiped, cmds, faults, shown, lastFetch>>

HistFetch(c, limit) ==
    /\ lastFetch' = [channel_id |-> c, limit |-> limit,
                     rows |-> fetchShortHistory(messages, c, limit)]
    /\ UNCHANGED <<messages, nextId, user_memory, pc, msg, local, sent, trace,
                   failedAt, turnId, wiped, cmds, faults, shown>>

HistNext ==
    \/ \E c \in Channels, role \in Roles : HistInsert(c, role)
    \/ \E c \in Channels : HistReset(c)
    \/ \E c \in Channels, limit \in 0..MaxLimit : HistFetch(c, limit)

SpecHistory == Init /\ [][HistNext]_vars

---------------------------------------------------------------------------
(* Properties *)

Has(seq, x) == \E i \in 1..Len(seq) : seq[i] = x

IsPrefix(s, full) ==
    /\ Len(s) <= Len(full)
    /\ \A i \in 1..Len(s) : s[i] = full[i]

Terminal == {"ignored", "unaddressed", "aborted", "done", "failed", "uncaught"}

ApologyTried(t) == \E i \in 1..Len(sent[t]) : sent[t][i].content = Apology

PipelineOrder ==
    <<"insertUser", "fetchShort", "fetchSummary", "modelCall", "send",
      "insertAssistant", "memRead", "memCall", "memWrite">>

\* C1: for one inbound message the completed steps are always an initial
\* part of: user Turn inserted, context read, summary read, model call,
\* reply sent, assistant Turn inserted, memory read, summarizer call, memory
\* write; the assistant Turn is stored only after the reply was delivered and
\* after the user Turn, and the memory update runs only once the assistant
\* Turn is stored.
C1_StepsInOrder ==
    \A t \in Tasks :
        /\ IsPrefix(trace[t], PipelineOrder)
        /\ turnId[t].assistant # 0 =>
              /\ turnId[t].user # 0 /\ turnId[t].user < turnId[t].assistant
              /\ Len(sent[t]) >= 1
              /\ sent[t][1] = [content |-> local[t].reply, delivered |-> TRUE]
        /\ pc[t] \in {"memRead", "memCall", "memWrite", "done"} =>
              turnId[t].assistant # 0
        /\ Len(sent[t]) >= 1 /\ sent[t][1].content # Apology =>
              Has(trace[t], "modelCall")

C1_Witness == \E t \in Tasks : pc[t] = "done" /\ trace[t] = PipelineOrder

MemorySteps == {"memRead", "memCall", "memWrite"}

\* C2 (as claimed): a failure inside the memory update never sends the
\* apology and never puts the message into the failed outcome.
C2_MemoryFailureIsolated ==
    \A t \in Tasks :
        failedAt[t] \in MemorySteps =>
            /\ pc[t] \notin {"catch", "failed", "uncaught"}
            /\ ~ApologyTried(t)

StoreSteps ==
    {"insertUser", "fetchShort", "fetchSummary", "insertAssistant",
     "memRead", "memWrite"}

\* C3 (as claimed): every store failure while handling a message, the first
\* insert included, is caught: the handler is in its catch clause or has
\* attempted the apology, and never ends with the rejection unhandled and
\* no apology attempted.
C3_StoreErrorsCaught ==
    \A t \in Tasks :
        failedAt[t] \in StoreSteps => (pc[t] = "catch" \/ ApologyTried(t))

\* C4: when the model call of generateReply fails (rejects, no choice, no
\* content), the handler goes to its catch clause; its only send is the
\* apology (delivered unless that send itself fails); no assistant Turn is
\* stored, no memory step runs, and the user Turn stored before is still in
\* the table unless a /reset deleted it.
C4_GenerationFailure ==
    \A t \in Tasks :
        failedAt[t] = "modelCall" =>
            /\ pc[t] \in {"catch", "failed", "uncaught"}
            /\ pc[t] = "catch" => sent[t] = <<>>
            /\ pc[t] = "failed" =>
                  sent[t] = <<[content |-> Apology, delivered |-> TRUE]>>
            /\ pc[t] = "uncaught" =>
                  sent[t] = <<[content |-> Apology, delivered |-> FALSE]>>
            /\ turnId[t].assistant = 0
            /\ \A r \in messages : r.role = "assistant" =>
                  \E o \in Tasks : o # t /\ turnId[o].assistant = r.id
            /\ \A i \in 1..Len(trace[t]) :
                  trace[t][i] \notin MemorySteps \cup {"insertAssistant", "send"}
            /\ turnId[t].user # 0
            /\ \/ userRow(turnId[t].user, msg[t]) \in messages
               \/ turnId[t].user \in wiped

C4_Witness ==
    \E t \in Tasks :
        /\ failedAt[t] = "modelCall"
        /\ pc[t] = "failed"
        /\ userRow(turnId[t].user, msg[t]) \in messages

\* C5 (as claimed): generateReply never returns empty text.
C5_ReplyNeverEmpty ==
    \A t \in Tasks : Has(trace[t], "modelCall") => local[t].reply # <<>>

\* a message that neither mentions the bot nor starts with the prefix
Unaddressed(m) ==
    /\ ~m.mentionsBot
    /\ m.content = <<>> \/ m.content[1] # "!"

\* the row of `messages` with this id is a user turn holding m's raw text
StoredRaw(id, m) ==
    \E r \in messages :
        /\ r.id = id /\ r.role = "user" /\ r.content = m.content
        /\ r.channel_id = m.channelId /\ r.user_id = m.author

\* C6: a non-bot message that is not addressed is stored as a user Turn
\* (when the insert succeeds) and nothing else happens for it: no
\* generation step, no send, no assistant Turn, no memory step; every
\* summary in the store was written for another message.
C6_UnaddressedOnlyStored ==
    \A t \in Tasks :
        (pc[t] # "start" /\ msg[t].author # BotUser /\ Unaddressed(msg[t])) =>
            /\ pc[t] \in {"insertUser", "unaddressed", "uncaught"}
            /\ IsPrefix(trace[t], <<"insertUser">>)
            /\ sent[t] = <<>>
            /\ turnId[t].assistant = 0
            /\ local[t] = NoLocal
            /\ pc[t] = "uncaught" => failedAt[t] = "insertUser"
            /\ pc[t] = "unaddressed" =>
                  /\ turnId[t].user # 0
                  /\ StoredRaw(turnId[t].user, msg[t]) \/ turnId[t].user \in wiped
            /\ \A r \in user_memory :
                  \E o \in Tasks \ {t} :
                      Has(trace[o], "memWrite") /\ msg[o].author = r.user_id

C6_Witness ==
    \E t \in Tasks :
        /\ msg[t].author # BotUser /\ Unaddressed(msg[t])
        /\ pc[t] = "unaddressed"
        /\ StoredRaw(turnId[t].user, msg[t])
        /\ \A o \in Tasks : pc[o] \in Terminal

\* C7: a message of a bot is dropped at once (nothing stored, nothing
\* sent, no step run); for every other message, addressed or not, the first
\* completed step is the insert of one row with role 'user' holding the raw
\* text, the channel and the author, and every user row of the table is the
\* row of exactly one message.
C7_EveryUserMessageStored ==
    /\ \A t \in Tasks :
          (pc[t] # "start" /\ msg[t].author = BotUser) =>
              /\ pc[t] = "ignored"
              /\ trace[t] = <<>> /\ sent[t] = <<>> /\ local[t] = NoLocal
              /\ turnId[t] = [user |-> 0, assistant |-> 0]
    /\ \A t \in Tasks :
          (msg[t].author # BotUser /\ pc[t] \notin {"start", "insertUser"}
              /\ failedAt[t] # "insertUser") =>
              /\ trace[t] # <<>> /\ trace[t][1] = "insertUser"
              /\ turnId[t].user # 0
              /\ StoredRaw(turnId[t].user, msg[t]) \/ turnId[t].user \in wiped
    /\ \A r \in messages :
          r.role = "user" =>
              Cardinality({t \in Tasks : turnId[t].user = r.id}) = 1
    /\ Cardinality({r \in messages : r.role = "user"}) + Cardinality(wiped)
          <= nextId - 1
    /\ nextId - 1 =
          Cardinality({t \in Tasks : turnId[t].user # 0})
              + Cardinality({t \in Tasks : turnId[t].assistant # 0})

C7_Witness ==
    \E t \in Tasks, o \in Tasks :
        /\ msg[o].author = BotUser /\ pc[o] = "ignored"
        /\ msg[t].author # BotUser /\ pc[t] = "aborted"
        /\ msg[t].content = <<"!", "@", " ">>
        /\ StoredRaw(turnId[t].user, msg[t])

\* the first message, addressed and with text, handled while nothing else
\* has happened: the store held no turns and no summary when it arrived
HelloScenario(t) ==
    /\ t = Order[1]
    /\ \A o \in Tasks \ {t} : pc[o] = "start"
    /\ cmds = 0
    /\ msg[t].author # BotUser
    /\ msg[t].mentionsBot \/ (msg[t].content # <<>> /\ msg[t].content[1] = "!")
    /\ userTextOf(msg[t].content) # <<>>

NoneLine == [role |-> "system", content |-> <<MemPrefix, NoneMarker>>]

AssistantStored(t) ==
    \E r \in messages :
        /\ r.id = turnId[t].assistant /\ r.role = "assistant"
        /\ r.content = local[t].reply /\ r.channel_id = msg[t].channelId

\* C8 (as claimed): in the scenario the context fetched by generateReply is
\* the empty sequence, the memory line carries "(none)", and the reply is
\* stored with role 'assistant'.
C8_ContextEmpty ==
    \A t \in Tasks :
        HelloScenario(t) =>
            /\ Has(trace[t], "fetchShort") => local[t].short = <<>>
            /\ Has(trace[t], "fetchSummary") => local[t].messages[2] = NoneLine
            /\ Has(trace[t], "insertAssistant") => AssistantStored(t)

\* C8 (amended): in the scenario the context fetched by generateReply is the
\* one-element sequence holding the message's own user Turn (its raw text),
\* stored just before; the memory line carries "(none)", and the reply is
\* stored with role 'assistant'.
C8_ContextIsOwnTurn ==
    \A t \in Tasks :
        HelloScenario(t) =>
            /\ Has(trace[t], "fetchShort") =>
                  local[t].short = <<[role |-> "user", content |-> msg[t].content]>>
            /\ Has(trace[t], "fetchSummary") => local[t].messages[2] = NoneLine
            /\ Has(trace[t], "insertAssistant") => AssistantStored(t)

C8_Witness ==
    \E t \in Tasks :
        /\ HelloScenario(t)
        /\ Has(trace[t], "insertAssistant")
        /\ local[t].short = <<[role |-> "user", content |-> <<"!", " ", "a">>]>>
        /\ local[t].messages[2] = NoneLine
        /\ AssistantStored(t)

\* the turns of channel c with fewer than n turns of c above them by id
Newest(table, c, n) ==
    LET ofChannel == {r \in table : r.channel_id = c}
    IN {r \in ofChannel : Cardinality({q \in ofChannel : q.id > r.id}) < n}

\* rows lists role and content of exactly the turns in S, by increasing id
IsOldestFirst(rows, S) ==
    /\ Len(rows) = Cardinality(S)
    /\ \E f \in [1..Len(rows) -> S] :
          /\ \A i, j \in 1..Len(rows) : i < j => f[i].id < f[j].id
          /\ \A i \in 1..Len(rows) :
                rows[i] = [role |-> f[i].role, content |-> f[i].content]

\* C9: every call fetchShortHistory(channel, N) returns at most N turns: role
\* and content of exactly the N turns of that channel with the highest ids
\* (all of them when there are fewer), by strictly increasing id; the empty
\* sequence when the channel has no turns.
C9_NewestOldestFirst ==
    [][lastFetch' # lastFetch =>
          /\ Len(lastFetch'.rows) <= lastFetch'.limit
          /\ IsOldestFirst(lastFetch'.rows,
                           Newest(messages, lastFetch'.channel_id, lastFetch'.limit))
          /\ (\A r \in messages : r.channel_id # lastFetch'.channel_id) =>
                lastFetch'.rows = <<>>]_vars

\* a call that had to cut: three turns in the channel, one in the other,
\* limit 2, and the two newest came back oldest first
C9_Witness ==
    /\ lastFetch.limit = 2
    /\ lastFetch.rows = <<[role |-> "user", content |-> <<"a">>],
                          [role |-> "assistant", content |-> <<"r">>]>>
    /\ Cardinality({r \in messages : r.channel_id = lastFetch.channel_id}) = 3
    /\ Cardinality(messages) = 4
    /\ \E r \in messages :
          /\ r.channel_id = lastFetch.channel_id
          /\ r.role = "assistant"
          /\ \A q \in messages : q.channel_id = r.channel_id => q.id <= r.id

\* C10: when generateReply builds its prompt, the prompt is: the persona
\* instruction, one memory line with the summary stored for the author at
\* that moment ("(none)" when there is no row or the summary is empty), the
\* turns of the short-term context in the order fetched (oldest first) with
\* their roles, and last the new user message holding the stripped text;
\* the short-term context itself is fetched as the newest HistoryLimit turns
\* of the channel, oldest first.
C10_PromptShape ==
    [][\A t \in Tasks :
          /\ (pc[t] = "fetchSummary" /\ pc'[t] = "modelCall") =>
                LET p == local'[t].messages
                    short == local[t].short
                    stored == {r \in user_memory : r.user_id = msg[t].author}
                    memory == IF stored = {} \/ \E r \in stored : r.summary = <<>>
                              THEN <<NoneMarker>>
                              ELSE (CHOOSE r \in stored : TRUE).summary
                IN /\ Len(p) = Len(short) + 3
                   /\ p[1] = [role |-> "system", content |-> <<Persona>>]
                   /\ p[2] = [role |-> "system", content |-> <<MemPrefix>> \o memory]
                   /\ \A i \in 1..Len(short) : p[2 + i] = short[i]
                   /\ p[Len(p)].role = "user"
                   /\ p[Len(p)].content = Trim(RemoveMention(StripPrefix(msg[t].content)))
                   /\ p[Len(p)].content # <<>>
          /\ (pc[t] = "fetchShort" /\ pc'[t] = "fetchSummary") =>
                IsOldestFirst(local'[t].short,
                              Newest(messages, msg[t].channelId, HistoryLimit))
      ]_vars

\* a prompt with a stored summary and a context of three turns
C10_Witness ==
    \E t \in Tasks :
        /\ Has(trace[t], "fetchSummary")
        /\ Len(local[t].short) = 3
        /\ local[t].summary = <<"s">>
        /\ local[t].messages =
              <<[role |-> "system", content |-> <<Persona>>],
                [role |-> "system", content |-> <<MemPrefix, "s">>]>>
                  \o local[t].short
                  \o <<[role |-> "user", content |-> <<"a">>]>>


\* C11: the new message given to the memory update (the argument of
\* upsertUserSummary and the "New message from user" of its prompt) is the
\* raw text of the inbound message; when that text starts with the prefix or
\* carries the mention token it still does so, and so is not the stripped
\* userText; it is not the reply.
C11_MemoryGetsRawText ==
    \A t \in Tasks :
        /\ Has(trace[t], "insertAssistant") =>
              LET raw == msg[t].content
                  marked == raw[1] = "!" \/ \E i \in 1..Len(raw) : raw[i] = "@"
              IN /\ local[t].interactionText = raw
                 /\ local[t].interactionText # local[t].reply
                 /\ marked =>
                       /\ local[t].interactionText # local[t].userText
                       /\ Len(local[t].interactionText) > Len(local[t].userText)
        /\ Has(trace[t], "memRead") =>
              local[t].prompt.newMessage = msg[t].content

C11_Witness ==
    \E t \in Tasks :
        /\ Has(trace[t], "memRead")
        /\ local[t].prompt.newMessage = <<"!", " ", "a">>
        /\ local[t].userText = <<"a">>
        /\ local[t].reply = <<"r">>


\* u is s without its leading and trailing blanks
IsTrimOf(u, s) ==
    /\ u = <<>> \/ (u[1] # " " /\ u[Len(u)] # " ")
    /\ \E i \in 0..Len(s) :
          /\ i + Len(u) <= Len(s)
          /\ \A k \in 1..Len(u) : s[i + k] = u[k]
          /\ \A k \in 1..Len(s) : (k <= i \/ k > i + Len(u)) => s[k] = " "

\* C12: after every step the store holds at most one summary row per user;
\* the write of upsertUserSummary for user u leaves exactly one row of u,
\* whose summary is the capability's output without its leading and trailing
\* blanks, whatever was stored before (no trace of the earlier summary), and
\* a read of u returns it; rows of other users are untouched.
C12_SummaryReplaced ==
    [][/\ \A u \in Users : Cardinality({r \in user_memory' : r.user_id = u}) <= 1
       /\ \A t \in Tasks :
             (pc[t] = "memWrite" /\ pc'[t] = "done") =>
                 LET u == msg[t].author
                     rows == {r \in user_memory' : r.user_id = u}
                 IN /\ Cardinality(rows) = 1
                    /\ \A r \in rows : IsTrimOf(r.summary, local[t].output)
                    /\ IsTrimOf(fetchUserSummary(user_memory', u), local[t].output)
                    /\ {r \in user_memory' : r.user_id # u}
                          = {r \in user_memory : r.user_id # u}
      ]_vars

\* a second update of the same user: "s" was stored, the output was " s ",
\* and "s" is stored
C12_Witness ==
    \E t \in Tasks :
        /\ pc[t] = "done"
        /\ local[t].current = <<"s">>
        /\ local[t].output = <<" ", "s", " ">>
        /\ user_memory = {[user_id |-> msg[t].author, summary |-> <<"s">>]}

\* C13: when the summarizer call of upsertUserSummary fails, that update
\* never writes: none of the handler's steps from the failure on (the
\* rejection, the apology) changes user_memory, and no memory write is among
\* its completed steps.
C13_FailedSummarizerWritesNothing ==
    [][\A t \in Tasks :
          (failedAt'[t] = "memCall" /\ pc'[t] # pc[t]) =>
              /\ user_memory' = user_memory
              /\ ~Has(trace'[t], "memWrite")
              /\ pc'[t] \in {"catch", "failed", "uncaught"}
      ]_vars

C13_Witness ==
    \E t \in Tasks :
        /\ failedAt[t] = "memCall"
        /\ pc[t] = "failed"
        /\ local[t].current = <<"s">>
        /\ user_memory = {[user_id |-> msg[t].author, summary |-> <<"s">>]}


\* C14 (as claimed): every stored Turn has role 'user' or 'assistant' and a
\* content that is not empty.
C14_TurnsWellFormed ==
    \A r \in messages : r.role \in {"user", "assistant"} /\ r.content # <<>>

\* nothing but blanks is left of s once a leading "!" and the first mention
\* token are taken away
EmptyAfterStrip(s) ==
    LET body == IF s # <<>> /\ s[1] = "!" THEN Tail(s) ELSE s
    IN /\ \A i \in 1..Len(body) : body[i] \in {" ", "@"}
       /\ Cardinality({i \in 1..Len(body) : body[i] = "@"}) <= 1

\* C15: for an addressed message whose text is empty after stripping, the
\* handler returns after the first insert: no generation step, no send
\* (neither reply nor apology), no assistant Turn, no memory step; the user
\* Turn it stored stays in the table unless a /reset deleted it.
C15_EmptyTextAborts ==
    \A t \in Tasks :
        (/\ pc[t] # "start" /\ msg[t].author # BotUser
         /\ ~Unaddressed(msg[t]) /\ EmptyAfterStrip(msg[t].content)) =>
            /\ pc[t] \in {"insertUser", "aborted", "uncaught"}
            /\ IsPrefix(trace[t], <<"insertUser">>)
            /\ sent[t] = <<>>
            /\ turnId[t].assistant = 0
            /\ local[t] = NoLocal
            /\ pc[t] = "uncaught" => failedAt[t] = "insertUser"
            /\ pc[t] = "aborted" =>
                  /\ turnId[t].user # 0
                  /\ StoredRaw(turnId[t].user, msg[t]) \/ turnId[t].user \in wiped

C15_Witness ==
    \E t \in Tasks :
        /\ msg[t].content = <<"!", "@", " ">>
        /\ pc[t] = "aborted"
        /\ StoredRaw(turnId[t].user, msg[t])
        /\ \A o \in Tasks : pc[o] \in Terminal

\* C16: a /forget of user u leaves no row of u, so that a read of u returns
\* the empty string whatever was stored; with no row of u it changes
\* nothing; it never changes a row of another user nor the table messages.
C16_ForgetErases ==
    [][\A u \in Users :
          Forget(u) =>
              /\ fetchUserSummary(user_memory', u) = <<>>
              /\ \A r \in user_memory' : r.user_id # u
              /\ {r \in user_memory' : r.user_id # u}
                    = {r \in user_memory : r.user_id # u}
              /\ (\A r \in user_memory : r.user_id # u) => user_memory' = user_memory
              /\ messages' = messages
      ]_vars

\* two users had the summary "s" written; one was forgotten, the other kept
C16_Witness ==
    \E t \in Tasks, o \in Tasks :
        /\ pc[t] = "done" /\ pc[o] = "done"
        /\ msg[t].author # msg[o].author
        /\ local[t].updated = <<"s">> /\ local[o].updated = <<"s">>
        /\ user_memory = {[user_id |-> msg[o].author, summary |-> <<"s">>]}
        /\ fetchUserSummary(user_memory, msg[t].author) = <<>>
        /\ cmds = 1 /\ shown = <<>> /\ wiped = {}

\* C17: a /reset of channel c leaves no turn of c, so that fetchShortHistory
\* of c returns the empty sequence; with no turn of c it changes nothing; it
\* never changes a turn of another channel nor the table user_memory.
C17_ResetClearsChannel ==
    [][\A c \in Channels :
          Reset(c) =>
              /\ fetchShortHistory(messages', c, HistoryLimit) = <<>>
              /\ \A r \in messages' : r.channel_id # c
              /\ {r \in messages' : r.channel_id # c}
                    = {r \in messages : r.channel_id # c}
              /\ (\A r \in messages : r.channel_id # c) => messages' = messages
              /\ user_memory' = user_memory
      ]_vars

\* two channels held turns; one was reset, the other and the summaries kept
C17_Witness ==
    \E t \in Tasks, o \in Tasks :
        /\ msg[t].channelId # msg[o].channelId
        /\ turnId[t].assistant # 0
        /\ wiped = {turnId[t].user, turnId[t].assistant}
        /\ fetchShortHistory(messages, msg[t].channelId, HistoryLimit) = <<>>
        /\ StoredRaw(turnId[o].user, msg[o])
        /\ user_memory # {}


\* two messages of the same user in the same channel
SameUserAndChannel(t, o) ==
    /\ t # o
    /\ msg[t].author = msg[o].author /\ msg[t].author \in Users
    /\ msg[t].channelId = msg[o].channelId

\* C18: nothing serializes two addressed messages of one user in one
\* channel.  With no command run: while both memory updates are between
\* their read and their write, both hold the same prior summary, the one
\* still stored; once both have written, the stored summary is the output of
\* one of them alone (the last writer's, computed from the summary it read);
\* each message's assistant Turn has a higher id than its user Turn, and
\* nothing else orders the four Turns.  The witness is the race itself.
C18_RaceOutcome ==
    \A t \in Tasks, o \in Tasks :
        (SameUserAndChannel(t, o) /\ cmds = 0) =>
            /\ (pc[t] \in {"memCall", "memWrite"} /\ pc[o] \in {"memCall", "memWrite"}) =>
                  /\ local[t].current = local[o].current
                  /\ local[t].current = fetchUserSummary(user_memory, msg[t].author)
            /\ (pc[t] = "done" /\ pc[o] = "done") =>
                  /\ \E r \in user_memory : r.user_id = msg[t].author
                  /\ \A r \in user_memory :
                        r.summary \in {local[t].updated, local[o].updated}
                  /\ local[t].current = <<>> \/ local[o].current = <<>>
                  /\ local[t].current \in {<<>>, local[o].updated}
            /\ turnId[t].assistant # 0 => turnId[t].user < turnId[t].assistant

\* both updates read "no summary" before either wrote; t stored "s", then o
\* overwrote it with a summary computed without it; and o's user Turn lies
\* between t's user Turn and t's assistant Turn
C18_Witness ==
    \E t \in Tasks, o \in Tasks :
        /\ SameUserAndChannel(t, o) /\ cmds = 0
        /\ pc[t] = "done" /\ pc[o] = "done"
        /\ local[t].current = <<>> /\ local[o].current = <<>>
        /\ local[t].updated = <<"s">> /\ local[o].updated = <<>>
        /\ user_memory = {[user_id |-> msg[t].author, summary |-> <<>>]}
        /\ turnId[t].user < turnId[o].user
        /\ turnId[o].user < turnId[t].assistant
        /\ turnId[t].assistant < turnId[o].assistant

Delivered(t) == {i \in 1..Len(sent[t]) : sent[t][i].delivered}

\* C19 (as claimed): at most one message is delivered to the channel per
\* inbound message, and once the reply was delivered no apology is sent.
C19_ReplyOrApology ==
    \A t \in Tasks :
        /\ Cardinality(Delivered(t)) <= 1
        /\ (Len(sent[t]) >= 1 /\ sent[t][1].delivered /\ sent[t][1].content # Apology)
              => ~ApologyTried(t)

AfterReplySteps == {"insertAssistant", "memRead", "memCall", "memWrite"}
BeforeReplySteps == {"fetchShort", "fetchSummary", "modelCall", "send"}

\* C19 (amended): per inbound message the handler sends at most one reply
\* and at most one apology, the reply first; the apology is sent exactly
\* when a step of the try block failed: alone when the failure came before
\* the reply was delivered, and in addition to the delivered reply when the
\* assistant-Turn insert or the memory update failed.
C19_ReplyThenApology ==
    \A t \in Tasks :
        /\ Len(sent[t]) <= 2
        /\ Len(sent[t]) = 2 =>
              /\ sent[t][1].content # Apology
              /\ sent[t][2].content = Apology
        /\ \A i \in 1..Len(sent[t]) :
              sent[t][i].content # Apology =>
                  (i = 1 /\ sent[t][i].content = local[t].reply)
        /\ ApologyTried(t) <=>
              (failedAt[t] \in BeforeReplySteps \cup AfterReplySteps /\ pc[t] # "catch")
        /\ (failedAt[t] \in BeforeReplySteps /\ pc[t] # "catch") =>
              /\ Delivered(t) \subseteq {Len(sent[t])}
              /\ ~sent[t][1].delivered \/ sent[t][1].content = Apology
        /\ (failedAt[t] \in AfterReplySteps /\ pc[t] # "catch") =>
              /\ Len(sent[t]) = 2
              /\ sent[t][1] = [content |-> local[t].reply, delivered |-> TRUE]
        /\ pc[t] = "done" =>
              sent[t] = <<[content |-> local[t].reply, delivered |-> TRUE]>>
        /\ pc[t] \in {"ignored", "unaddressed", "aborted"} => sent[t] = <<>>

\* the reply was delivered, the assistant-Turn insert failed, the apology
\* followed
C19_Witness ==
    \E t \in Tasks :
        /\ failedAt[t] = "insertAssistant"
        /\ pc[t] = "failed"
        /\ sent[t] = <<[content |-> <<"r">>, delivered |-> TRUE],
                       [content |-> Apology, delivered |-> TRUE]>>

\* C20 (as claimed): a memory update that read a summary which a /forget
\* has erased since (it holds a summary, the user has no row any more) does
\* not bring that summary back when it writes.
C20_ForgetDurable ==
    [][\A t \in Tasks :
          (/\ pc[t] = "memWrite" /\ pc'[t] = "done"
           /\ local[t].current # <<>>
           /\ \A r \in user_memory : r.user_id # msg[t].author) =>
              fetchUserSummary(user_memory', msg[t].author) # local[t].current
      ]_vars

====
